---- MODULE Spec2Model ----
(***************************************************************************)
(* certomat (src/main.go): an HTTPS gateway that turns a posted CSR into a *)
(* certificate by running certbot, one run at a time, and that serves its  *)
(* own certificate through autocert behind a host whitelist.               *)
(*                                                                         *)
(* Strings are sequences of one-character strings, so that Split, Join,    *)
(* ToLower and HasSuffix are computed and not assumed.                     *)
(***************************************************************************)
EXTENDS Integers, Sequences, FiniteSets, TLC

VARIABLES
    version, domain, prod,      \* command-line flags (main.go:21-23)
    mainpc,                     \* position of main()
    printed,                    \* what main() printed on stdout
    domainNames,                \* var domainNames in main (the whitelist)
    localFqdn,                  \* certomatFqdn := ... declared inside main
    certomatFqdn,               \* package-level var certomatFqdn
    dirUrl,                     \* acme.Client.DirectoryURL
    lookedUp, registerRan,      \* startup use of the agent
    listenerBound,              \* ListenAndServeTLS has bound port 443
    fatalWhy,                   \* which log.Fatal ended the process, if any
    certbotMu,                  \* 0 = unlocked, r = locked by request r
    pc, method, csr, name,      \* per request: position and inputs
    args,                       \* per request: the certbot argument vector
    resp,                       \* per request: what the client has received
    exitPath,                   \* per request: which return was taken
    spawned,                    \* per request: number of cmd.Start successes
    tmpFiles,                   \* request -> staged CSR temp file contents
    certFile,                   \* 0000_cert.pem: 0 = absent, r = written by run r
    running,                    \* requests whose certbot subprocess is alive
    selfpc, selfHost,           \* autocert manager: issuance in progress, for whom
    host, doms, verdict         \* policy-function harness (SpecPolicy)

vars == << version, domain, prod, mainpc, printed, domainNames, localFqdn,
           certomatFqdn, dirUrl, lookedUp, registerRan, listenerBound,
           fatalWhy, certbotMu, pc, method, csr, name, args, resp, exitPath, spawned,
           tmpFiles, certFile, running, selfpc, selfHost,
           host, doms, verdict >>

mainVars == << version, domain, prod, mainpc, printed, domainNames, localFqdn,
               certomatFqdn, dirUrl, lookedUp, registerRan, listenerBound,
               fatalWhy >>
reqVars  == << certbotMu, pc, method, csr, name, args, resp, exitPath, spawned,
               tmpFiles, certFile, running >>
selfVars == << selfpc, selfHost >>
polVars  == << host, doms, verdict >>

----------------------------------------------------------------------------
(* Bounds *)
NumRequests == 2
MaxHostLen  == 5

Reqs == 1..NumRequests

----------------------------------------------------------------------------
(* Strings *)
Dot == "."
EmptyStr == << >>
ExampleCom       == <<"e","x","a","m","p","l","e",".","c","o","m">>
ExampleComDot    == ExampleCom \o <<".">>
SubExampleCom    == <<"s","u","b",".">> \o ExampleCom
SubExampleComDot == SubExampleCom \o <<".">>
MixedSubExample  == <<"S","u","B",".","E","x","a","m","p","l","e",".","C","O","M">>
DeepExampleCom   == <<"a",".","b",".">> \o ExampleCom
EvilCom          == <<"e","v","i","l",".","c","o","m">>
WwwEvilCom       == <<"w","w","w",".">> \o EvilCom
NoDotsOnly       == <<"n","o","d","o","t","s","o","n","l","y">>
Com              == <<"c","o","m">>
CertomatPrefix   == <<"c","e","r","t","o","m","a","t",".">>

\* strings.ToLower on the characters the model uses
LowerOf(c) ==
    CASE c = "A" -> "a" [] c = "B" -> "b" [] c = "C" -> "c" [] c = "E" -> "e"
      [] c = "S" -> "s" [] c = "O" -> "o" [] c = "M" -> "m" [] OTHER -> c

ToLower(s) == [i \in 1..Len(s) |-> LowerOf(s[i])]

HasSuffixDot(s) == Len(s) > 0 /\ s[Len(s)] = Dot

\* index of the first separator in s, 0 when there is none
RECURSIVE IndexFrom(_, _)
IndexFrom(s, i) ==
    IF i > Len(s) THEN 0 ELSE IF s[i] = Dot THEN i ELSE IndexFrom(s, i + 1)

\* strings.Split(s, "."): always at least one element
RECURSIVE Split(_)
Split(s) ==
    LET i == IndexFrom(s, 1) IN
    IF i = 0 THEN << s >>
    ELSE << SubSeq(s, 1, i - 1) >> \o Split(SubSeq(s, i + 1, Len(s)))

\* strings.Join(parts, ".")
RECURSIVE Join(_)
Join(parts) ==
    IF Len(parts) = 0 THEN EmptyStr
    ELSE IF Len(parts) = 1 THEN parts[1]
    ELSE parts[1] \o << Dot >> \o Join(Tail(parts))

----------------------------------------------------------------------------
(* Domain policy gate *)

getDomain_KeepsFirstLabel(h) ==
    LET x == Split(h) IN
    IF Len(x) > 1 THEN [dom |-> Join(x), err |-> FALSE]
    ELSE [dom |-> EmptyStr, err |-> TRUE]

getDomain(h) ==
    LET x == Split(h) IN
    IF Len(x) > 1 THEN [dom |-> Join(Tail(x)), err |-> FALSE]
    ELSE [dom |-> EmptyStr, err |-> TRUE]

\* the closure returned by HostWhitelistByDomains(ds); ds is the set of keys
\* mapped to true.  Result: "nil", "nodots" (getDomain's error) or "notallowed".
HostWhitelistByDomains_NoLower(ds, h) ==
    LET h1 == IF HasSuffixDot(h) THEN SubSeq(h, 1, Len(h) - 1) ELSE h
        d  == getDomain(h1)
    IN  IF d.err THEN [err |-> "nodots", dom |-> EmptyStr]
        ELSE IF d.dom \in ds THEN [err |-> "nil", dom |-> d.dom]
        ELSE [err |-> "notallowed", dom |-> d.dom]

HostWhitelistByDomains(ds, h) ==
    LET h1 == IF HasSuffixDot(h) THEN SubSeq(h, 1, Len(h) - 1) ELSE h
        h2 == ToLower(h1)
        d  == getDomain(h2)
    IN  IF d.err THEN [err |-> "nodots", dom |-> EmptyStr]
        ELSE IF d.dom \in ds THEN [err |-> "nil", dom |-> d.dom]
        ELSE [err |-> "notallowed", dom |-> d.dom]

----------------------------------------------------------------------------
(* Values *)
StagingUrl == "https://acme-staging.api.letsencrypt.org/directory"
ProdUrl    == ""

Methods == {"POST", "GET"}

\* request bodies: a DER CSR with a subject common name, or bytes that are none
ValidCSR(cn) == [valid |-> TRUE, cn |-> cn]
JunkCSR      == [valid |-> FALSE, cn |-> EmptyStr]
Bodies == {ValidCSR(SubExampleCom), ValidCSR(WwwEvilCom), JunkCSR}

ExitCodes == {0, 1}

SniHosts == {CertomatPrefix \o ExampleCom, WwwEvilCom}

\* body chunks of a response
Text(s)  == [kind |-> "text", run |-> 0, text |-> s]
Cert(c)  == [kind |-> "cert", run |-> c, text |-> ""]

NoResp == [status |-> 0, ctype |-> "", body |-> << >>]
NoArgs == [built |-> FALSE, http01addr |-> EmptyStr, csrPath |-> 0,
           name |-> EmptyStr, testCert |-> FALSE]
NoFile == [exists |-> FALSE, data |-> << >>]
NoVerdict == [err |-> "none", dom |-> EmptyStr]

----------------------------------------------------------------------------
(* Helpers of the issuance handler *)

getNameFromCSR_Garbage(b) == IF b.valid THEN b.cn ELSE << "?" >>

getNameFromCSR_Whitelisted(b) ==
    IF b.valid /\ HostWhitelistByDomains(domainNames, b.cn).err = "nil"
    THEN b.cn ELSE EmptyStr

getNameFromCSR(b) == IF b.valid THEN b.cn ELSE EmptyStr

\* httpError -> http.Error: the header (status, content type) goes out with
\* the first WriteHeader only; later calls just append to the body.
httpError(w, why, code) ==
    IF w.status = 0
    THEN [status |-> code, ctype |-> "text/plain; charset=utf-8",
          body |-> << Text(why) >>]
    ELSE [w EXCEPT !.body = Append(@, Text(why))]

\* w.Header().Set("Content-Type", "text/plain"); w.Write(cert)
writeCert(w, c) ==
    IF w.status = 0
    THEN [status |-> 200, ctype |-> "text/plain", body |-> << Cert(c) >>]
    ELSE [w EXCEPT !.body = Append(@, Cert(c))]

\* if !*prod { args = append(args, "--test-cert") }
TestCertFlag_Inverted(p) == p

TestCertFlag(p) == ~p

\* certbotMu.Lock() proceeds only when the mutex is unlocked
LockAvailable_Always(m) == TRUE

LockAvailable(m) == m = 0

\* defer os.Remove(tmpfile.Name())
osRemove_Noop(files, r) == files

osRemove(files, r) == [files EXCEPT ![r] = NoFile]

\* between cmd.Wait() and the return nothing unlocks certbotMu: the Unlock
\* is deferred (main.go:137), so the mutex a caller holds stays as it is
muAfterWait_Unlocked(m) == 0

muAfterWait(m) == m

\* if *domain == "" (main.go:181)
DomainMissing_Never(d) == FALSE

DomainMissing(d) == d = EmptyStr

\* if err != nil { log.Fatal("Cannot find certbot: ", err) } (main.go:198-201)
afterLookPath_NoFatal(found) == "register"

afterLookPath(found) == IF found THEN "register" ELSE "fatal"

\* dirUrl := ""; if !*prod { dirUrl = staging }
DirectoryURL_Swapped(p) == IF p THEN StagingUrl ELSE ProdUrl

DirectoryURL(p) == IF ~p THEN StagingUrl ELSE ProdUrl

----------------------------------------------------------------------------
(* Initial state: flags parsed, nothing else done *)
ServerInit ==
    /\ mainpc = "start"
    /\ printed = "none"
    /\ domainNames = {}
    /\ localFqdn = EmptyStr
    /\ certomatFqdn = EmptyStr
    /\ dirUrl = ProdUrl
    /\ lookedUp = FALSE
    /\ registerRan = FALSE
    /\ listenerBound = FALSE
    /\ fatalWhy = "none"
    /\ certbotMu = 0
    /\ pc = [r \in Reqs |-> "idle"]
    /\ method = [r \in Reqs |-> "POST"]
    /\ csr = [r \in Reqs |-> JunkCSR]
    /\ name = [r \in Reqs |-> EmptyStr]
    /\ args = [r \in Reqs |-> NoArgs]
    /\ resp = [r \in Reqs |-> NoResp]
    /\ exitPath = [r \in Reqs |-> "none"]
    /\ spawned = [r \in Reqs |-> 0]
    /\ tmpFiles = [r \in Reqs |-> NoFile]
    /\ certFile = 0
    /\ running = {}
    /\ selfpc = "nomgr"
    /\ selfHost = EmptyStr

Init ==
    /\ version \in BOOLEAN
    /\ domain \in {EmptyStr, ExampleCom}
    /\ prod \in BOOLEAN
    /\ ServerInit
    /\ host = EmptyStr
    /\ doms = {}
    /\ verdict = NoVerdict

----------------------------------------------------------------------------
(* main() *)

\* flag checks, whitelist, canonical name, directory URL (main.go:175-195)
MainStart ==
    /\ mainpc = "start"
    /\ IF version
       THEN /\ printed' = "version"
            /\ mainpc' = "returned"
            /\ UNCHANGED << domainNames, localFqdn, dirUrl >>
       ELSE IF DomainMissing(domain)
       THEN /\ printed' = "usage"
            /\ mainpc' = "returned"
            /\ UNCHANGED << domainNames, localFqdn, dirUrl >>
       ELSE /\ domainNames' = {domain}
            /\ localFqdn' = CertomatPrefix \o domain
            /\ dirUrl' = DirectoryURL(prod)
            /\ mainpc' = "lookpath"
            /\ UNCHANGED printed
    /\ UNCHANGED << version, domain, prod, certomatFqdn, lookedUp, registerRan,
                    listenerBound, fatalWhy >>
    /\ UNCHANGED << reqVars, selfVars, polVars >>

\* exec.LookPath("certbot") at startup (main.go:197-201)
MainLookPath(found) ==
    /\ mainpc = "lookpath"
    /\ lookedUp' = TRUE
    /\ mainpc' = afterLookPath(found)
    /\ fatalWhy' = IF found THEN fatalWhy ELSE "lookpath"
    /\ UNCHANGED << version, domain, prod, printed, domainNames, localFqdn,
                    certomatFqdn, dirUrl, registerRan, listenerBound >>
    /\ UNCHANGED << reqVars, selfVars, polVars >>

\* the registration shell command (main.go:203-210)
MainRegister(ok) ==
    /\ mainpc = "register"
    /\ registerRan' = TRUE
    /\ mainpc' = IF ok THEN "setup" ELSE "fatal"
    /\ fatalWhy' = IF ok THEN fatalWhy ELSE "register"
    /\ UNCHANGED << version, domain, prod, printed, domainNames, localFqdn,
                    certomatFqdn, dirUrl, lookedUp, listenerBound >>
    /\ UNCHANGED << reqVars, selfVars, polVars >>

\* build the manager and the server, register the routes, listen
\* (main.go:212-251)
MainListen(bound) ==
    /\ mainpc = "setup"
    /\ IF bound
       THEN /\ listenerBound' = TRUE
            /\ selfpc' = "idle"
            /\ mainpc' = "listening"
            /\ UNCHANGED fatalWhy
       ELSE /\ mainpc' = "fatal"
            /\ fatalWhy' = "listen"
            /\ UNCHANGED << listenerBound, selfpc >>
    /\ UNCHANGED << version, domain, prod, printed, domainNames, localFqdn,
                    certomatFqdn, dirUrl, lookedUp, registerRan >>
    /\ UNCHANGED << reqVars, selfHost, polVars >>

----------------------------------------------------------------------------
(* getHandler.  A request is at one of                                      *)
(*   idle -> lock -> start -> wait -> read -> cleanup -> done               *)
(* Steps that touch nothing another goroutine can see (the response, the    *)
(* private temp file, locals) are taken together with the step before the   *)
(* next blocking or shared operation; a return runs the deferred calls.     *)

Serving == mainpc = "listening"

othersUnchanged == UNCHANGED << mainVars, selfVars, polVars >>

Return_NoUnlockOnError(r, how, locked, staged, files) ==
    /\ certbotMu' = IF locked /\ how = "success" THEN 0 ELSE certbotMu
    /\ tmpFiles' = IF staged THEN osRemove(files, r) ELSE files
    /\ pc' = [pc EXCEPT ![r] = "done"]
    /\ exitPath' = [exitPath EXCEPT ![r] = how]
    /\ csr' = [csr EXCEPT ![r] = JunkCSR]
    /\ name' = [name EXCEPT ![r] = EmptyStr]
    /\ args' = [args EXCEPT ![r] = NoArgs]

Return_NoUnlock(r, how, locked, staged, files) ==
    /\ certbotMu' = certbotMu
    /\ tmpFiles' = IF staged THEN osRemove(files, r) ELSE files
    /\ pc' = [pc EXCEPT ![r] = "done"]
    /\ exitPath' = [exitPath EXCEPT ![r] = how]
    /\ csr' = [csr EXCEPT ![r] = JunkCSR]
    /\ name' = [name EXCEPT ![r] = EmptyStr]
    /\ args' = [args EXCEPT ![r] = NoArgs]

\* the function returns: deferred Unlock (when Lock was reached), deferred
\* os.Remove (when TempFile succeeded); the goroutine's locals are gone.
Return(r, how, locked, staged, files) ==
    /\ certbotMu' = IF locked THEN 0 ELSE certbotMu
    /\ tmpFiles' = IF staged THEN osRemove(files, r) ELSE files
    /\ pc' = [pc EXCEPT ![r] = "done"]
    /\ exitPath' = [exitPath EXCEPT ![r] = how]
    /\ csr' = [csr EXCEPT ![r] = JunkCSR]
    /\ name' = [name EXCEPT ![r] = EmptyStr]
    /\ args' = [args EXCEPT ![r] = NoArgs]

PreLockOutcomes == {"ok", "bodyerr", "tmpfail", "writeerr", "nolookpath"}

\* everything up to certbotMu.Lock(): method check, body read, CSR name,
\* temp file, write and close, argument vector, LookPath (main.go:80-134)
Receive(r, m, b, outcome) ==
    /\ Serving
    /\ pc[r] = "idle"
    /\ method' = [method EXCEPT ![r] = m]
    /\ LET w1 == IF m # "POST"
                 THEN httpError(resp[r], "post only", 405)
                 ELSE resp[r]
           created == [tmpFiles EXCEPT ![r] = [exists |-> TRUE, data |-> << >>]]
           filled  == [tmpFiles EXCEPT ![r] = [exists |-> TRUE, data |-> << b >>]]
       IN  CASE outcome = "bodyerr" ->
                  /\ resp' = [resp EXCEPT ![r] = httpError(w1, "read body", 500)]
                  /\ Return(r, "bodyerr", FALSE, FALSE, tmpFiles)
             [] outcome = "tmpfail" ->
                  /\ resp' = [resp EXCEPT ![r] = httpError(w1, "tempfile", 500)]
                  /\ Return(r, "tmpfail", FALSE, FALSE, tmpFiles)
             [] outcome = "writeerr" ->
                  /\ resp' = [resp EXCEPT ![r] = httpError(w1, "write", 500)]
                  /\ Return(r, "writeerr", FALSE, TRUE, created)
             [] outcome = "nolookpath" ->
                  /\ resp' = [resp EXCEPT ![r] = httpError(w1, "certbot not found", 500)]
                  /\ Return(r, "nolookpath", FALSE, TRUE, filled)
             [] outcome = "ok" ->
                  /\ resp' = [resp EXCEPT ![r] = w1]
                  /\ csr' = [csr EXCEPT ![r] = b]
                  /\ name' = [name EXCEPT ![r] = getNameFromCSR(b)]
                  /\ tmpFiles' = filled
                  /\ args' = [args EXCEPT ![r] =
                                [built |-> TRUE, http01addr |-> certomatFqdn,
                                 csrPath |-> r, name |-> getNameFromCSR(b),
                                 testCert |-> TestCertFlag(prod)]]
                  /\ pc' = [pc EXCEPT ![r] = "lock"]
                  /\ UNCHANGED << certbotMu, exitPath >>
    /\ UNCHANGED << spawned, certFile, running >>
    /\ othersUnchanged

\* certbotMu.Lock() and the deferred Unlock (main.go:136-137)
Lock(r) ==
    /\ pc[r] = "lock"
    /\ LockAvailable(certbotMu)
    /\ certbotMu' = r
    /\ pc' = [pc EXCEPT ![r] = "start"]
    /\ UNCHANGED << method, csr, name, args, resp, exitPath, spawned, tmpFiles,
                    certFile, running >>
    /\ othersUnchanged

\* cmd.Start() (main.go:139-143)
Start(r, ok) ==
    /\ pc[r] = "start"
    /\ IF ok
       THEN /\ running' = running \cup {r}
            /\ spawned' = [spawned EXCEPT ![r] = @ + 1]
            /\ pc' = [pc EXCEPT ![r] = "wait"]
            /\ UNCHANGED << certbotMu, csr, name, args, resp, exitPath, tmpFiles >>
       ELSE /\ resp' = [resp EXCEPT ![r] = httpError(@, "start", 500)]
            /\ Return(r, "startfail", TRUE, TRUE, tmpFiles)
            /\ UNCHANGED << running, spawned >>
    /\ UNCHANGED << method, certFile >>
    /\ othersUnchanged

\* the subprocess ends (it may or may not have written 0000_cert.pem) and
\* cmd.Wait() returns (main.go:144-150)
Wait(r, code, wrote) ==
    /\ pc[r] = "wait"
    /\ r \in running
    /\ running' = running \ {r}
    /\ certFile' = IF wrote THEN r ELSE certFile
    /\ IF code = 0
       THEN /\ pc' = [pc EXCEPT ![r] = "read"]
            /\ certbotMu' = muAfterWait(certbotMu)
            /\ UNCHANGED << csr, name, args, resp, exitPath, tmpFiles >>
       ELSE /\ resp' = [resp EXCEPT ![r] =
                          httpError(@, "certbot result code: exit status 1", 500)]
            /\ Return(r, "agentfail", TRUE, TRUE, tmpFiles)
    /\ UNCHANGED << method, spawned >>
    /\ othersUnchanged

\* ioutil.ReadFile("0000_cert.pem"), then the response (main.go:152-161)
ReadResult(r, readable) ==
    /\ pc[r] = "read"
    /\ IF certFile # 0 /\ readable
       THEN /\ resp' = [resp EXCEPT ![r] = writeCert(@, certFile)]
            /\ pc' = [pc EXCEPT ![r] = "cleanup"]
            /\ UNCHANGED << certbotMu, csr, name, args, exitPath, tmpFiles >>
       ELSE /\ resp' = [resp EXCEPT ![r] = httpError(@, "cannot read cert", 500)]
            /\ Return(r, "readerr", TRUE, TRUE, tmpFiles)
    /\ UNCHANGED << method, spawned, certFile, running >>
    /\ othersUnchanged

\* sh -c "rm 00*", result ignored, and the function ends (main.go:163-167)
Cleanup(r, ok) ==
    /\ pc[r] = "cleanup"
    /\ certFile' = IF ok THEN 0 ELSE certFile
    /\ Return(r, "success", TRUE, TRUE, tmpFiles)
    /\ UNCHANGED << method, resp, spawned, running >>
    /\ othersUnchanged

----------------------------------------------------------------------------
(* TLS handshakes: tls.Config.GetCertificate is mgr.GetCertificate itself   *)
(* (main.go:215-231).  The manager asks HostPolicy and, when its cache (an  *)
(* external store) holds no usable certificate, obtains one from the CA.    *)
(* certbotMu is not involved.                                               *)

HandshakeBegin(h, cached) ==
    /\ Serving
    /\ selfpc = "idle"
    /\ IF HostWhitelistByDomains(domainNames, h).err = "nil" /\ ~cached
       THEN /\ selfpc' = "issuing"
            /\ selfHost' = h
       ELSE UNCHANGED << selfpc, selfHost >>
    /\ UNCHANGED << mainVars, reqVars, polVars >>

HandshakeEnd ==
    /\ selfpc = "issuing"
    /\ selfpc' = "idle"
    /\ selfHost' = EmptyStr
    /\ UNCHANGED << mainVars, reqVars, polVars >>

----------------------------------------------------------------------------
Next ==
    \/ MainStart
    \/ \E found \in BOOLEAN : MainLookPath(found)
    \/ \E ok \in BOOLEAN : MainRegister(ok)
    \/ \E bound \in BOOLEAN : MainListen(bound)
    \/ \E r \in Reqs, m \in Methods, b \in Bodies, o \in PreLockOutcomes :
          Receive(r, m, b, o)
    \/ \E r \in Reqs : Lock(r)
    \/ \E r \in Reqs, ok \in BOOLEAN : Start(r, ok)
    \/ \E r \in Reqs, code \in ExitCodes, wrote \in BOOLEAN : Wait(r, code, wrote)
    \/ \E r \in Reqs, readable \in BOOLEAN : ReadResult(r, readable)
    \/ \E r \in Reqs, ok \in BOOLEAN : Cleanup(r, ok)
    \/ \E h \in SniHosts, cached \in BOOLEAN : HandshakeBegin(h, cached)
    \/ HandshakeEnd

Spec == Init /\ [][Next]_vars

\* The same program under the scheduling the runtime gives: a goroutine that
\* can take a step eventually takes it, a started certbot eventually exits,
\* and a goroutine waiting in Lock() gets the mutex once it stays free.
\* (A fair mutex gives more, strong fairness of Lock; every property shown
\* under the weaker condition holds under the stronger one.)
LockedStep(r) ==
    \/ \E ok \in BOOLEAN : Start(r, ok)
    \/ \E code \in ExitCodes, wrote \in BOOLEAN : Wait(r, code, wrote)
    \/ \E readable \in BOOLEAN : ReadResult(r, readable)
    \/ \E ok \in BOOLEAN : Cleanup(r, ok)

Fairness ==
    \A r \in Reqs : WF_vars(Lock(r)) /\ WF_vars(LockedStep(r))

SpecFair == Init /\ [][Next]_vars /\ Fairness

----------------------------------------------------------------------------
(* The policy function on its own: every host up to MaxHostLen characters   *)
(* over a small alphabet, and the hosts of the documented examples.         *)

Alphabet == {"a", "A", "b", Dot}

BoundedHosts == UNION { [1..n -> Alphabet] : n \in 0..MaxHostLen }

MixedDeepDot == <<"A", ".">> \o MixedSubExample \o <<".">>

ExampleHosts == {SubExampleCom, SubExampleComDot, ExampleCom, ExampleComDot,
                 MixedSubExample, DeepExampleCom, MixedDeepDot, EvilCom,
                 WwwEvilCom, NoDotsOnly}

Hosts == BoundedHosts \cup ExampleHosts

DomainSets == { {<<"a">>}, {<<"b", ".", "a">>}, {<<"A">>}, {ExampleCom},
                {SubExampleCom} }

InitPolicy ==
    /\ version = FALSE
    /\ domain = ExampleCom
    /\ prod = FALSE
    /\ ServerInit
    /\ host \in Hosts
    /\ doms \in DomainSets
    /\ verdict = NoVerdict

\* one call of the closure returned by HostWhitelistByDomains(doms)
Authorize ==
    /\ verdict.err = "none"
    /\ verdict' = HostWhitelistByDomains(doms, host)
    /\ UNCHANGED << host, doms >>
    /\ UNCHANGED << mainVars, reqVars, selfVars >>

NextPolicy == Authorize

SpecPolicy == InitPolicy /\ [][NextPolicy]_vars

----------------------------------------------------------------------------
(* Properties *)

InProgress(r) == pc[r] \notin {"idle", "done"}

HasCert(w) == \E i \in 1..Len(w.body) : w.body[i].kind = "cert"

\* C1: at every instant at most one certbot subprocess started by the
\* handler is running, and it belongs to the holder of certbotMu: the
\* Start..Wait intervals of two requests never overlap.
C1_OneAgentAtATime ==
    /\ Cardinality(running) <= 1
    /\ \A r \in running : certbotMu = r /\ pc[r] = "wait"

\* a request's agent runs while another request waits for the mutex
C1_Witness ==
    \E r \in Reqs, q \in Reqs : r # q /\ r \in running /\ pc[q] = "lock"

\* C2: a request whose verb is not POST gets 405 and nothing else happens
\* for it: no CSR is staged, the agent is never started for it, and no
\* certificate bytes are written to its response.
C2_NonPostOnlyRejected ==
    \A r \in Reqs :
        (pc[r] # "idle" /\ method[r] # "POST") =>
            /\ resp[r].status = 405
            /\ ~tmpFiles[r].exists
            /\ spawned[r] = 0
            /\ ~HasCert(resp[r])

\* C3: once an issuance call has returned, by whichever exit path, the
\* temporary CSR file it created is gone; when no call is in progress no
\* staged CSR file exists.
C3_NoOrphanedCsr ==
    /\ \A r \in Reqs : pc[r] = "done" => ~tmpFiles[r].exists
    /\ (\A r \in Reqs : ~InProgress(r)) => \A r \in Reqs : ~tmpFiles[r].exists

\* every call has returned, one after a failed agent run and one after a
\* success or an error before the agent was started
C3_Witness ==
    /\ \A r \in Reqs : pc[r] = "done"
    /\ \E r \in Reqs : exitPath[r] = "agentfail"
    /\ \E r \in Reqs : exitPath[r] \in {"success", "writeerr", "nolookpath"}

\* C4: the manager's own issuance or renewal and a CSR call's agent run
\* never execute at the same time.
C4_SelfIssuanceExcludesAgent ==
    ~(selfpc = "issuing" /\ running # {})

\* C5: the policy accepts h exactly when the base domain of h (one trailing
\* dot stripped, lower-cased, leftmost label dropped) is in the domain set,
\* and a host with fewer than two labels is rejected with getDomain's error.
RefNorm(h) ==
    LET k == IF Len(h) > 0 /\ h[Len(h)] = Dot THEN Len(h) - 1 ELSE Len(h)
    IN  [i \in 1..k |-> LowerOf(h[i])]

RefHasBase(n, ds) ==
    \E i \in 1..Len(n) :
        /\ n[i] = Dot
        /\ \A j \in 1..(i - 1) : n[j] # Dot
        /\ SubSeq(n, i + 1, Len(n)) \in ds

RefNoDots(n) == \A i \in 1..Len(n) : n[i] # Dot

C5_PolicyIsBaseDomainMembership ==
    verdict.err # "none" =>
        LET n == RefNorm(host) IN
        /\ (verdict.err = "nil") <=> RefHasBase(n, doms)
        /\ (verdict.err = "nodots") <=> RefNoDots(n)

\* an accepted multi-label, mixed-case host with a trailing dot
C5_Witness ==
    /\ verdict.err = "nil"
    /\ HasSuffixDot(host)
    /\ ToLower(host) # host
    /\ Len(Split(host)) > 3

\* C6 (as stated): with the domain set {"example.com"} the gate accepts
\* "example.com.".
C6_AcceptsBareDomainWithDot ==
    (host = ExampleComDot /\ doms = {ExampleCom} /\ verdict.err # "none")
        => verdict.err = "nil"

\* C6 (amended): with the domain set {"example.com"} the gate rejects
\* "example.com." (after the dot is stripped the base domain is "com"), and
\* accepts "sub.example.com.".
C6_RejectsBareDomainWithDot ==
    (doms = {ExampleCom} /\ verdict.err # "none") =>
        /\ host = ExampleComDot => verdict = [err |-> "notallowed", dom |-> Com]
        /\ host = SubExampleComDot => verdict = [err |-> "nil", dom |-> ExampleCom]

C6_Witness ==
    host = ExampleComDot /\ doms = {ExampleCom} /\ verdict.err = "notallowed"

\* C7: when the agent exits non-zero the call answers 500, the body carries
\* the exit detail and no certificate, and the agent is started at most once
\* for any request.
C7_AgentFailureIs500 ==
    \A r \in Reqs :
        /\ spawned[r] <= 1
        /\ exitPath[r] = "agentfail" =>
              /\ resp[r].status = 500
              /\ resp[r].body[Len(resp[r].body)] =
                     Text("certbot result code: exit status 1")
              /\ ~HasCert(resp[r])

\* C8: a successful call's response body is byte-identical to the contents
\* of 0000_cert.pem and its content type is text/plain.
C8_BodyIsCertFile ==
    \A r \in Reqs :
        pc[r] = "cleanup" =>
            /\ resp[r].body = << Cert(certFile) >>
            /\ resp[r].ctype = "text/plain"

\* C9: the agent's files are touched only under certbotMu: from the start of
\* a call's agent until its result has been read and rm 00* has run, that
\* call holds the mutex, no other call is in that section and no other
\* agent runs; 0000_cert.pem changes only in a step of the holder.
AgentSection == {"wait", "read", "cleanup"}

C9_Inv ==
    \A r \in Reqs :
        pc[r] \in AgentSection =>
            /\ certbotMu = r
            /\ running \subseteq {r}
            /\ \A q \in Reqs \ {r} : pc[q] \notin AgentSection

C9_FilesUnderToken ==
    [](C9_Inv) /\
    [][certFile' # certFile =>
          /\ certbotMu # 0
          /\ pc[certbotMu] \in AgentSection
          /\ pc'[certbotMu] # pc[certbotMu]]_vars

\* a call is between its agent's exit and its cleanup while another waits
C9_Witness ==
    \E r \in Reqs, q \in Reqs :
        r # q /\ pc[r] \in {"read", "cleanup"} /\ pc[q] = "lock"

\* C10: every invocation carries --test-cert exactly when prod is not set,
\* which is exactly when the manager's directory URL is the staging one;
\* all invocations of a run agree.
C10_ModeConsistent ==
    /\ \A r \in Reqs :
          args[r].built =>
              /\ args[r].testCert = ~prod
              /\ args[r].testCert <=> (dirUrl = StagingUrl)
    /\ \A r \in Reqs, q \in Reqs :
          (args[r].built /\ args[q].built) => args[r].testCert = args[q].testCert
    /\ selfpc # "nomgr" => (dirUrl = StagingUrl <=> ~prod)

\* a staging-mode agent is running and a second invocation is prepared
C10_Witness ==
    \E r \in Reqs, q \in Reqs :
        /\ r # q /\ r \in running /\ pc[q] = "lock"
        /\ args[r].testCert /\ args[q].testCert /\ dirUrl = StagingUrl

\* C11 (as stated): with an empty domain value startup prints the usage
\* message and ends without binding the listener, building a whitelist or
\* using the agent.
C11_EmptyDomainPrintsUsage ==
    (domain = EmptyStr /\ mainpc # "start") =>
        /\ printed = "usage"
        /\ mainpc = "returned"
        /\ ~listenerBound /\ domainNames = {} /\ ~lookedUp /\ ~registerRan

\* C11 (amended): with an empty domain value startup ends without binding
\* the listener, building a whitelist or using the agent (lookup or
\* registration), and serves nothing; it prints the usage message unless the
\* version flag is set, in which case it prints the version.
C11_EmptyDomainNeverServes ==
    domain = EmptyStr =>
        /\ ~listenerBound /\ domainNames = {} /\ ~lookedUp /\ ~registerRan
        /\ mainpc \in {"start", "returned"}
        /\ \A r \in Reqs : pc[r] = "idle"
        /\ mainpc = "returned" =>
              printed = (IF version THEN "version" ELSE "usage")

C11_Witness ==
    domain = EmptyStr /\ ~version /\ mainpc = "returned" /\ printed = "usage"

\* C12: a body that does not parse as a CSR does not abort the call: the
\* name is empty, the raw bytes are staged in the temp file, the argument
\* vector is built with an empty target name and the call goes on to the
\* agent; nothing has been answered for the parse failure.
C12_UnparsableCsrProceeds ==
    \A r \in Reqs :
        (InProgress(r) /\ ~csr[r].valid) =>
            /\ name[r] = EmptyStr
            /\ tmpFiles[r] = [exists |-> TRUE, data |-> << csr[r] >>]
            /\ args[r].built /\ args[r].name = EmptyStr /\ args[r].csrPath = r
            /\ pc[r] = "lock" => resp[r].status \in {0, 405}

\* the agent runs for a request whose body was not a CSR
C12_Witness ==
    \E r \in Reqs :
        r \in running /\ ~csr[r].valid /\ args[r].name = EmptyStr
                      /\ tmpFiles[r].data = << JunkCSR >>

\* C13: the agent's target name is exactly the common name of the submitted
\* CSR, whatever the whitelist says about that name.
C13_TargetIsCsrName ==
    \A r \in Reqs :
        (InProgress(r) /\ csr[r].valid) =>
            /\ args[r].built
            /\ args[r].name = csr[r].cn
            /\ name[r] = csr[r].cn

\* the agent runs for a name the policy gate rejects
C13_Witness ==
    \E r \in Reqs :
        /\ r \in running /\ csr[r].valid /\ args[r].name = WwwEvilCom
        /\ HostWhitelistByDomains(domainNames, args[r].name).err = "notallowed"

\* C14: certbotMu is released on every exit path of a call that acquired
\* it: the mutex is held only by a call between Lock and its return, it is
\* free whenever no call is in progress, a waiting call can take it as soon
\* as no call is in that section, and after any return, failed or not, the
\* process is still listening.
LockedSection == {"start", "wait", "read", "cleanup"}

C14_TokenReleasedOnReturn ==
    /\ certbotMu # 0 => pc[certbotMu] \in LockedSection
    /\ (\A r \in Reqs : ~InProgress(r)) => certbotMu = 0
    /\ (\A r \in Reqs : pc[r] \notin LockedSection) => LockAvailable(certbotMu)
    /\ \A r \in Reqs : pc[r] = "done" => (mainpc = "listening" /\ listenerBound)

\* after a call failed while holding the mutex, another call's agent runs
C14_Witness ==
    \E r \in Reqs, q \in Reqs :
        /\ pc[r] = "done" /\ exitPath[r] \in {"startfail", "readerr"}
        /\ certbotMu = q /\ q \in running

C16_ListenOnlyAfterAgentReady ==
    /\ listenerBound =>
          (lookedUp /\ registerRan /\ fatalWhy = "none" /\ mainpc = "listening")
    /\ fatalWhy \in {"lookpath", "register"} =>
          /\ mainpc = "fatal"
          /\ ~listenerBound
          /\ selfpc = "nomgr"
          /\ \A r \in Reqs : pc[r] = "idle"
    /\ fatalWhy = "lookpath" => ~registerRan
    /\ (selfpc # "nomgr" \/ \E r \in Reqs : pc[r] # "idle") => listenerBound

\* the lookup succeeded, the registration failed: fatal, nothing bound
C16_Witness ==
    fatalWhy = "register" /\ mainpc = "fatal" /\ lookedUp /\ ~listenerBound

\* C17: the certificate bytes in a successful call's response are the ones
\* written by the agent run of that same call, never what an earlier call's
\* run left in 0000_cert.pem.
C17_CertIsFromOwnRun ==
    \A r \in Reqs :
        \A i \in 1..Len(resp[r].body) :
            resp[r].body[i].kind = "cert" => resp[r].body[i].run = r

\* C18: with a fair mutex and agent runs that end, every request that has
\* arrived eventually returns with a response written and without the mutex,
\* and calls in progress are never all stuck.
C18_NotStuck ==
    (\E r \in Reqs : InProgress(r)) =>
        \E r \in Reqs :
            \/ pc[r] \in LockedSection
            \/ pc[r] = "lock" /\ LockAvailable(certbotMu)

\* a call that has returned has a response and not the mutex, and a request
\* that has arrived is never un-arrived; so "whenever calls are in progress,
\* a state follows in which none is" says each of them has returned.
C18_Returned ==
    \A r \in Reqs : pc[r] = "done" => (resp[r].status # 0 /\ certbotMu # r)

C18_EveryRequestCompletes ==
    /\ [](C18_NotStuck /\ C18_Returned)
    /\ [][\A r \in Reqs : pc[r] # "idle" => pc'[r] # "idle"]_vars
    /\ (\E r \in Reqs : InProgress(r)) ~> (\A r \in Reqs : ~InProgress(r))

\* every call has returned, one of them with a certificate after waiting for
\* nothing any more: the mutex is free again
C18_Witness ==
    /\ \A r \in Reqs : pc[r] = "done" /\ resp[r].status # 0
    /\ \E r \in Reqs : exitPath[r] = "success"
    /\ certbotMu = 0

\* C19: in every agent invocation of the handler the --http-01-addr value
\* is the canonical host name certomat.<domain> computed at startup, the one
\* used for the listener address and the Host comparison.
C19_ChallengeAddrIsCanonicalName ==
    \A r \in Reqs :
        args[r].built =>
            /\ args[r].http01addr = CertomatPrefix \o domain
            /\ args[r].http01addr = localFqdn

====
